---- MODULE Spec2Model ----
(***************************************************************************)
(* PawCounter font tooling: the ZPIX font generation script                *)
(* (regenerate_zpix_fonts.py) and the font verification script             *)
(* (test_zpix_font.py), as state machines.                                 *)
(*                                                                         *)
(*   Spec         regenerate_zpix_fonts.main: probe, prompt, batch         *)
(*   SpecDecode   test_zpix_font.analyze_character_range                   *)
(*   SpecInspect  test_zpix_font.check_generated_files                     *)
(*   SpecBudget   test_zpix_font.check_memory_usage                        *)
(*                                                                         *)
(* Text is a sequence of one-character strings; a character produced by    *)
(* chr() is represented by its code point.                                 *)
(***************************************************************************)
EXTENDS Integers, Sequences, FiniteSets, TLC

VARIABLES
    \* ---- regenerate_zpix_fonts.py ----
    pc,             \* position in main / generate_test_fonts / generate_font
    fontExists,     \* file system: zpix.ttf is present
    outputs,        \* file system: byte size of each output file, or Absent
    probeResult,    \* what the --help invocation did ("none" before the probe)
    available,      \* return value of check_lv_font_conv
    response,       \* the text typed at the prompt (raw)
    idx,            \* loop index of generate_test_fonts (1-based)
    success_count,  \* generate_test_fonts: success_count
    cur,            \* the running generate_font call's observations
    results,        \* history: one record per returned generate_font call
    invocations,    \* history: subprocess.run(cmd) calls made, per size
    message,        \* what main printed last: "none", "install", "summary"
    summary,        \* the <<N, M>> of the summary line
    envBudget,      \* file system changes by other processes still allowed
    \* ---- test_zpix_font.py: analyze_character_range ----
    tokens,         \* ghost: the token structure range_hex was written from
    range_hex,      \* the range expression
    ranges,         \* range_hex.split(',')
    di,             \* loop index over ranges (1-based)
    chars,          \* the list chars
    dpc,            \* position in analyze_character_range
    count,          \* the printed len(chars), -1 before the print
    \* ---- test_zpix_font.py: check_generated_files, check_memory_usage ----
    files,          \* file system: state of each path of font_files
    ipc,            \* position in check_generated_files
    ii,             \* loop index over font_files (1-based)
    report,         \* what check_generated_files printed, per path
    mpc,            \* position in check_memory_usage
    size_20,        \* local size_20, Unbound while not assigned
    size_60,        \* local size_60, Unbound while not assigned
    total,          \* local total, Unbound while not assigned
    flashPct        \* the printed flash percentage, in hundredths of a percent

genVars == <<pc, fontExists, outputs, probeResult, available, response, idx,
             success_count, cur, results, invocations, message, summary>>
decVars == <<tokens, range_hex, ranges, di, chars, dpc, count>>
insVars == <<ipc, ii, report>>
memVars == <<mpc, size_20, size_60, total, flashPct>>
vars == <<genVars, decVars, insVars, memVars, files, envBudget>>
notGen == <<decVars, insVars, memVars, files>>
notDec == <<genVars, insVars, memVars, files, envBudget>>
notIns == <<genVars, decVars, memVars>>
notMem == <<genVars, decVars, insVars>>

(***************************************************************************)
(* Bounds of the model.                                                    *)
(***************************************************************************)
MaxTokens == 2          \* tokens in a generated range expression
MaxSizeUnits == 2       \* file sizes are 0 .. MaxSizeUnits KiB
MaxEnvChanges == 1      \* file system changes by other processes per run

KiB == 1024
Absent == -1            \* the path does not exist
Denied == -2            \* stat() of the path fails (permission denied)
Unbound == -3           \* a Python local that was never assigned
Sizes == {k * KiB : k \in 0..MaxSizeUnits}

(***************************************************************************)
(* Text helpers (Python str semantics on the characters used here).        *)
(***************************************************************************)
\* str.split(sep) for a one-character sep: the pieces between the separators,
\* in order; n separators give n + 1 pieces, empty ones included.
Split(s, sep) ==
    LET seps == {k \in 1..Len(s) : s[k] = sep}
        \* position of the j-th separator; 0 and Len(s) + 1 close the ends
        at(j) == IF j = 0 THEN 0
                 ELSE IF j > Cardinality(seps) THEN Len(s) + 1
                 ELSE CHOOSE k \in seps : Cardinality({m \in seps : m < k}) = j - 1
    IN  [j \in 1..(Cardinality(seps) + 1) |-> SubSeq(s, at(j - 1) + 1, at(j) - 1)]

\* sep in s
Contains(s, sep) == \E k \in 1..Len(s) : s[k] = sep

RECURSIVE Join(_, _)
\* sep.join(parts)
Join(parts, sep) ==
    IF parts = <<>> THEN <<>>
    ELSE IF Len(parts) = 1 THEN parts[1]
    ELSE parts[1] \o <<sep>> \o Join(Tail(parts), sep)

Lower(c) ==
    CASE c = "A" -> "a" [] c = "B" -> "b" [] c = "C" -> "c" [] c = "D" -> "d"
      [] c = "E" -> "e" [] c = "F" -> "f" [] c = "X" -> "x" [] c = "Y" -> "y"
      [] c = "S" -> "s" [] c = "N" -> "n" [] c = "O" -> "o"
      [] OTHER -> c

LowerStr(s) == [k \in 1..Len(s) |-> Lower(s[k])]

RECURSIVE LStrip(_)
LStrip(s) == IF s # <<>> /\ Head(s) = " " THEN LStrip(Tail(s)) ELSE s

RECURSIVE RStrip(_)
RStrip(s) ==
    IF s # <<>> /\ s[Len(s)] = " " THEN RStrip(SubSeq(s, 1, Len(s) - 1)) ELSE s

\* str.strip()
Strip(s) == RStrip(LStrip(s))

HexDigits == <<"0", "1", "2", "3", "4", "5", "6", "7",
               "8", "9", "a", "b", "c", "d", "e", "f">>
UpperHexDigits == <<"0", "1", "2", "3", "4", "5", "6", "7",
                    "8", "9", "A", "B", "C", "D", "E", "F">>

IsHexDigit(c) == \E k \in 1..16 : HexDigits[k] = Lower(c)

HexVal(c) == (CHOOSE k \in 1..16 : HexDigits[k] = Lower(c)) - 1

RECURSIVE DigitsValue(_, _)
\* Value of a digit string in base 16, underscores skipped; acc so far.
DigitsValue(s, acc) ==
    IF s = <<>> THEN acc
    ELSE IF Head(s) = "_" THEN DigitsValue(Tail(s), acc)
    ELSE DigitsValue(Tail(s), acc * 16 + HexVal(Head(s)))

\* The digit part int() accepts: digits, single underscores between digits.
ValidDigits(s) ==
    /\ Len(s) >= 1
    /\ IsHexDigit(s[1])
    /\ IsHexDigit(s[Len(s)])
    /\ \A k \in 1..Len(s) : IsHexDigit(s[k]) \/ s[k] = "_"
    /\ \A k \in 1..(Len(s) - 1) : ~(s[k] = "_" /\ s[k + 1] = "_")

\* int(text, 16): [ok |-> FALSE] is ValueError.
int16(text) ==
    LET s1 == Strip(text)
        signed == s1 # <<>> /\ s1[1] \in {"+", "-"}
        s2 == IF signed THEN Tail(s1) ELSE s1
        prefixed == Len(s2) >= 2 /\ s2[1] = "0" /\ Lower(s2[2]) = "x"
        s3 == IF prefixed THEN SubSeq(s2, 3, Len(s2)) ELSE s2
        s4 == IF prefixed /\ s3 # <<>> /\ s3[1] = "_" THEN Tail(s3) ELSE s3
    IN  IF ValidDigits(s4)
        THEN [ok |-> TRUE,
              val |-> IF signed /\ s1[1] = "-" THEN 0 - DigitsValue(s4, 0)
                      ELSE DigitsValue(s4, 0)]
        ELSE [ok |-> FALSE, val |-> 0]

MaxCodePoint == 1114111

\* chr(i): ValueError outside range(0x110000).
chr(i) ==
    IF i >= 0 /\ i <= MaxCodePoint THEN [ok |-> TRUE, ch |-> i]
    ELSE [ok |-> FALSE, ch |-> 0]

\* range(a, b) as a sequence.
PyRange(a, b) == IF b > a THEN [k \in 1..(b - a) |-> a + k - 1] ELSE <<>>

(***************************************************************************)
(* analyze_character_range: one token of the loop.                         *)
(***************************************************************************)
\* range(start_val, end_val) : the upper end left out.
IntervalValuesExclusive(start_val, end_val) == PyRange(start_val, end_val)

\* for i in range(start_val, end_val + 1)
IntervalValues(start_val, end_val) == PyRange(start_val, end_val + 1)

Raised == [ok |-> FALSE, out |-> <<>>]

\* The body of "for r in ranges": the characters appended for r, or a raise.
DecodeToken(r) ==
    IF Contains(r, "-")
    THEN LET parts == Split(r, "-")
         IN  IF Len(parts) # 2 THEN Raised      \* start, end = ... unpacking
             ELSE LET start_val == int16(parts[1])
                      end_val == int16(parts[2])
                  IN  IF ~start_val.ok \/ ~end_val.ok THEN Raised
                      ELSE LET vs == IntervalValues(start_val.val, end_val.val)
                           IN  IF \E k \in 1..Len(vs) : ~chr(vs[k]).ok
                               THEN Raised
                               ELSE [ok |-> TRUE,
                                     out |-> [k \in 1..Len(vs) |-> chr(vs[k]).ch]]
    ELSE LET v == int16(r)
         IN  IF ~v.ok \/ ~chr(v.val).ok THEN Raised
             ELSE [ok |-> TRUE, out |-> <<chr(v.val).ch>>]

(***************************************************************************)
(* Range expressions: how an expression is written from its tokens.        *)
(***************************************************************************)
\* The literal range expression both scripts carry.
char_range ==
    <<"0","x","3","0","-","0","x","3","9">> \o <<",">> \o <<"0","x","2","B">> \o <<",">> \o <<"0","x","2","D">> \o <<",">> \o <<"0","x","2","A">> \o <<",">> \o
    <<"0","x","2","F">> \o <<",">> \o <<"0","x","3","D">> \o <<",">> \o <<"0","x","2","E">> \o <<",">> \o <<"0","x","2","5">> \o <<",">> \o
    <<"0","x","2","8">> \o <<",">> \o <<"0","x","2","9">> \o <<",">> \o <<"0","x","4","3">> \o <<",">> \o <<"0","x","4","5">> \o <<",">> \o
    <<"0","x","4","9">> \o <<",">> \o <<"0","x","4","E">> \o <<",">> \o <<"0","x","4","F">> \o <<",">> \o <<"0","x","5","2">> \o <<",">> \o
    <<"0","x","7","2">> \o <<",">> \o <<"0","x","6","F">> \o <<",">> \o <<"0","x","6","5">> \o <<",">> \o <<"0","x","7","4">> \o <<",">> \o
    <<"0","x","6","1">> \o <<",">> \o <<"0","x","6","E">> \o <<",">> \o <<"0","x","2","0">> \o <<",">> \o <<"0","x","2","C">> \o <<",">> \o
    <<"0","x","A","5">> \o <<",">> \o <<"0","x","2","4">>

Single(v) == [kind |-> "single", lo |-> v, hi |-> v, text |-> <<>>]
Interval(lo, hi) == [kind |-> "interval", lo |-> lo, hi |-> hi, text |-> <<>>]
RawToken(text) == [kind |-> "raw", lo |-> 0, hi |-> 0, text |-> text]

\* The tokens char_range is written from.
char_range_tokens ==
    <<Interval(48, 57), Single(43), Single(45), Single(42), Single(47),
      Single(61), Single(46), Single(37), Single(40), Single(41), Single(67),
      Single(69), Single(73), Single(78), Single(79), Single(82), Single(114),
      Single(111), Single(101), Single(116), Single(97), Single(110),
      Single(32), Single(44), Single(165), Single(36)>>

RECURSIVE HexOf(_)
\* The hex digits of n >= 0, most significant first, at least one digit.
HexOf(n) ==
    IF n < 16 THEN <<UpperHexDigits[n + 1]>>
    ELSE Append(HexOf(n \div 16), UpperHexDigits[(n % 16) + 1])

\* A code point as the scripts write it: 0x2B.
HexLiteral(n) == <<"0", "x">> \o HexOf(n)

TokenText(t) ==
    CASE t.kind = "single" -> HexLiteral(t.lo)
      [] t.kind = "interval" -> HexLiteral(t.lo) \o <<"-">> \o HexLiteral(t.hi)
      [] OTHER -> t.text

\* The flattened expression: the tokens' texts joined by commas.
Flatten(toks) == Join([k \in 1..Len(toks) |-> TokenText(toks[k])], ",")

\* Tokens the generated expressions are drawn from.
SingleValues == {43, 48, 165}
IntervalEnds == {47, 48, 51}
RawTexts ==
    { <<>>,
      <<"0", "x", "G", "1">>,
      <<"z", "z">>,
      <<"0", "x", "3", "0", "-">>,
      <<"0", "x", "3", "0", "-", "0", "x", "3", "1", "-", "0", "x", "3", "2">> }
TokenPool ==
    {Single(v) : v \in SingleValues}
    \cup {Interval(lo, hi) : lo \in IntervalEnds, hi \in IntervalEnds}
    \cup {RawToken(x) : x \in RawTexts}

TokenSeqs == UNION {[1..n -> TokenPool] : n \in 0..MaxTokens}

(***************************************************************************)
(* analyze_character_range                                                 *)
(***************************************************************************)
DecIdle ==
    /\ tokens = <<>>
    /\ range_hex = <<>>
    /\ ranges = <<>>
    /\ di = 0
    /\ chars = <<>>
    /\ dpc = "idle"
    /\ count = -1

DecInit ==
    /\ \/ tokens = char_range_tokens /\ range_hex = char_range
       \/ tokens \in TokenSeqs /\ range_hex = Flatten(tokens)
    /\ ranges = <<>>
    /\ di = 0
    /\ chars = <<>>
    /\ dpc = "start"
    /\ count = -1

\* chars = [] ; ranges = range_hex.split(',')
AC_Split ==
    /\ dpc = "start"
    /\ UNCHANGED notDec
    /\ ranges' = Split(range_hex, ",")
    /\ chars' = <<>>
    /\ di' = 1
    /\ dpc' = "loop"
    /\ UNCHANGED <<tokens, range_hex, count>>

\* One iteration of "for r in ranges".
AC_Token ==
    /\ dpc = "loop"
    /\ UNCHANGED notDec
    /\ di <= Len(ranges)
    /\ LET d == DecodeToken(ranges[di])
       IN  IF d.ok
           THEN /\ chars' = chars \o d.out
                /\ di' = di + 1
                /\ dpc' = dpc
           ELSE /\ dpc' = "raised"      \* ValueError leaves the function
                /\ UNCHANGED <<chars, di>>
    /\ UNCHANGED <<tokens, range_hex, ranges, count>>

\* The two prints after the loop.
AC_Print ==
    /\ dpc = "loop"
    /\ UNCHANGED notDec
    /\ di > Len(ranges)
    /\ count' = Len(chars)
    /\ dpc' = "done"
    /\ UNCHANGED <<tokens, range_hex, ranges, di, chars>>

analyze_character_range == AC_Split \/ AC_Token \/ AC_Print

(***************************************************************************)
(* regenerate_zpix_fonts.py                                                *)
(***************************************************************************)
test_sizes ==
    <<[size |-> 30, output |-> "src/fonts/lv_font_zpix_30.c"],
      [size |-> 80, output |-> "src/fonts/lv_font_zpix_80.c"],
      [size |-> 100, output |-> "src/fonts/lv_font_zpix_100.c"]>>

\* What subprocess.run can do: return a CompletedProcess, or raise.
Exited(code) == [t |-> "exit", code |-> code, exc |-> "none"]
Raises(exc) == [t |-> "raise", code |-> 0, exc |-> exc]
NotRun == [t |-> "none", code |-> 0, exc |-> "none"]
ExitCodes == {0, 1}
\* TimeoutExpired: the timeout passed; FileNotFoundError: the process could
\* not be started; UnicodeDecodeError: text=True decoding of its output.
Exceptions == {"TimeoutExpired", "FileNotFoundError", "UnicodeDecodeError"}
RunResults == {Exited(c) : c \in ExitCodes} \cup {Raises(e) : e \in Exceptions}

\* The classes "except Exception" catches, among those modelled.
IsException(exc) == exc \in Exceptions

\* check_lv_font_conv returning True for any completed process.
ProbeReturnAnyExit(r) == r.t = "exit"

\* check_lv_font_conv: the value returned for what the --help run did.
\* (the bare except swallows every exception)
ProbeReturn(r) == r.t = "exit" /\ r.code = 0

\* generate_font's handlers dropping the TimeoutExpired clause's return.
GenerateHandlerNoTimeout(exc) ==
    IF exc = "TimeoutExpired" THEN "propagate"
    ELSE IF IsException(exc) THEN "ExecutionError"
    ELSE "propagate"

\* generate_font's except clauses: the outcome for a raised exception.
GenerateHandler(exc) ==
    IF exc = "TimeoutExpired" THEN "Timeout"
    ELSE IF IsException(exc) THEN "ExecutionError"
    ELSE "propagate"

\* generate_font starting the process whether or not zpix.ttf exists.
InputMissingNever(exists) == FALSE

\* generate_font's first test: not os.path.exists("zpix.ttf")
InputMissing(exists) == ~exists

\* generate_font: result.returncode == 0
RunSucceeded(r) == r.t = "exit" /\ r.code = 0

\* The counter bumped for every size.
CountedAlways(ret, n) == n + 1

\* generate_test_fonts: if generate_font(size, output): success_count += 1
Counted(ret, n) == IF ret THEN n + 1 ELSE n

\* main going on to the prompt whatever the probe said.
MainProceedsAlways(avail) == TRUE

\* main: "if not check_lv_font_conv(): ... return" -- go on only if True.
MainProceeds(avail) == avail

\* The prompt's answer: input(...).strip().lower() in ['y', 'yes']
Accepted(resp) == LowerStr(Strip(resp)) \in {<<"y">>, <<"y", "e", "s">>}

Responses ==
    { <<"y">>, <<"Y">>, <<"y", "e", "s">>, <<" ", "Y", "E", "S", " ">>,
      <<"n">>, <<>>, <<"y", "e">>, <<"y", " ", "e", "s">> }

\* The tool left the output path as it was.
NoWrite == Unbound

CurIdle == [fontSeen |-> FALSE, ran |-> NotRun, outSeen |-> FALSE, reported |-> Unbound]

\* Sizes of the files the tool writes.
WrittenSizes == {KiB, MaxSizeUnits * KiB}

GenIdle ==
    /\ pc = "idle"
    /\ fontExists = FALSE
    /\ outputs = [i \in 1..Len(test_sizes) |-> Absent]
    /\ probeResult = NotRun
    /\ available = FALSE
    /\ response = <<>>
    /\ idx = 0
    /\ success_count = 0
    /\ cur = CurIdle
    /\ results = <<>>
    /\ invocations = [i \in 1..Len(test_sizes) |-> 0]
    /\ message = "none"
    /\ summary = <<>>

GenInit ==
    /\ pc = "analyze"
    /\ fontExists \in BOOLEAN
    /\ outputs \in {[i \in 1..Len(test_sizes) |-> st] : st \in {Absent, KiB}}
    /\ probeResult = NotRun
    /\ available = FALSE
    /\ response = <<>>
    /\ idx = 0
    /\ success_count = 0
    /\ cur = CurIdle
    /\ results = <<>>
    /\ invocations = [i \in 1..Len(test_sizes) |-> 0]
    /\ message = "none"
    /\ summary = <<>>

\* analyze_zpix_font: prints only.
analyze_zpix_font ==
    /\ pc = "analyze"
    /\ UNCHANGED <<notGen, envBudget>>
    /\ message' = IF fontExists THEN "analysis" ELSE "font_missing"
    /\ pc' = "probe"
    /\ UNCHANGED <<fontExists, outputs, probeResult, available, response, idx,
                   success_count, cur, results, invocations, summary>>

\* check_lv_font_conv: run npx lv_font_conv --help, timeout 10 s.
check_lv_font_conv ==
    /\ pc = "probe"
    /\ UNCHANGED <<notGen, envBudget>>
    /\ \E r \in RunResults :
        /\ probeResult' = r
        /\ available' = ProbeReturn(r)
    /\ pc' = "probed"
    /\ UNCHANGED <<fontExists, outputs, response, idx, success_count, cur,
                   results, invocations, message, summary>>

\* main: the probe failed, print the install instructions and return.
MainToolUnavailable ==
    /\ pc = "probed"
    /\ UNCHANGED <<notGen, envBudget>>
    /\ ~MainProceeds(available)
    /\ message' = "install"
    /\ pc' = "done"
    /\ UNCHANGED <<fontExists, outputs, probeResult, available, response, idx,
                   success_count, cur, results, invocations, summary>>

\* main: the prompt; generate_test_fonts starts on y / yes.
MainAsk ==
    /\ pc = "probed"
    /\ UNCHANGED <<notGen, envBudget>>
    /\ MainProceeds(available)
    /\ \E resp \in Responses :
        /\ response' = resp
        /\ IF Accepted(resp)
           THEN /\ pc' = "gf_entry"
                /\ idx' = 1
                /\ success_count' = 0
           ELSE /\ pc' = "done"
                /\ UNCHANGED <<idx, success_count>>
    /\ message' = "prompt"
    /\ UNCHANGED <<fontExists, outputs, probeResult, available, cur, results,
                   invocations, summary>>

\* generate_font returns ret; the loop of generate_test_fonts counts it and
\* moves to the next size, or to the summary after the last one.
Return(ret, kind, c) ==
    /\ results' = Append(results,
                         [size |-> test_sizes[idx].size, ret |-> ret, kind |-> kind,
                          fontSeen |-> c.fontSeen, ran |-> c.ran,
                          outSeen |-> c.outSeen, reported |-> c.reported])
    /\ success_count' = Counted(ret, success_count)
    /\ cur' = CurIdle
    /\ idx' = idx + 1
    /\ pc' = IF idx = Len(test_sizes) THEN "gt_summary" ELSE "gf_entry"

\* generate_font: the source font test.
GF_Entry ==
    /\ pc = "gf_entry"
    /\ UNCHANGED <<notGen, envBudget>>
    /\ IF InputMissing(fontExists)
       THEN Return(FALSE, "MissingInput", [cur EXCEPT !.fontSeen = fontExists])
       ELSE /\ cur' = [cur EXCEPT !.fontSeen = fontExists]
            /\ pc' = "gf_run"
            /\ UNCHANGED <<results, success_count, idx>>
    /\ UNCHANGED <<fontExists, outputs, probeResult, available, response,
                   invocations, message, summary>>

\* generate_font: subprocess.run(cmd, timeout=60) and the classification of
\* what it did.  w is what the tool left at the output path.
GF_Run ==
    /\ pc = "gf_run"
    /\ UNCHANGED <<notGen, envBudget>>
    /\ \E r \in RunResults, w \in {NoWrite} \cup WrittenSizes :
        LET c == [cur EXCEPT !.ran = r]
        IN  /\ invocations' = [invocations EXCEPT ![idx] = @ + 1]
            /\ outputs' = IF w = NoWrite \/ r.exc = "FileNotFoundError"
                          THEN outputs
                          ELSE [outputs EXCEPT ![idx] = w]
            /\ IF r.t = "exit"
               THEN IF RunSucceeded(r)
                    THEN /\ cur' = c
                         /\ pc' = "gf_exists"
                         /\ UNCHANGED <<results, success_count, idx>>
                    ELSE Return(FALSE, "ToolError", c)
               ELSE IF GenerateHandler(r.exc) = "propagate"
                    THEN /\ cur' = c
                         /\ pc' = "crashed"
                         /\ UNCHANGED <<results, success_count, idx>>
                    ELSE Return(FALSE, GenerateHandler(r.exc), c)
    /\ UNCHANGED <<fontExists, probeResult, available, response, message, summary>>

\* generate_font after exit code 0: the success line is printed, then
\* os.path.exists(output_file) decides whether the size is read.
GF_Exists ==
    /\ pc = "gf_exists"
    /\ UNCHANGED <<notGen, envBudget>>
    /\ IF outputs[idx] # Absent
       THEN /\ cur' = [cur EXCEPT !.outSeen = TRUE]
            /\ pc' = "gf_getsize"
            /\ UNCHANGED <<results, success_count, idx>>
       ELSE Return(TRUE, "Success", cur)
    /\ UNCHANGED <<fontExists, outputs, probeResult, available, response,
                   invocations, message, summary>>

\* generate_font: os.path.getsize(output_file), inside the try.
GF_GetSize ==
    /\ pc = "gf_getsize"
    /\ UNCHANGED <<notGen, envBudget>>
    /\ IF outputs[idx] # Absent
       THEN Return(TRUE, "Success", [cur EXCEPT !.reported = outputs[idx]])
       ELSE Return(FALSE, GenerateHandler("FileNotFoundError"), cur)
    /\ UNCHANGED <<fontExists, outputs, probeResult, available, response,
                   invocations, message, summary>>

generate_font == GF_Entry \/ GF_Run \/ GF_Exists \/ GF_GetSize

\* generate_test_fonts after the loop: the summary line.
GT_Summary ==
    /\ pc = "gt_summary"
    /\ UNCHANGED <<notGen, envBudget>>
    /\ summary' = <<success_count, Len(test_sizes)>>
    /\ message' = "summary"
    /\ pc' = "done"
    /\ UNCHANGED <<fontExists, outputs, probeResult, available, response, idx,
                   success_count, cur, results, invocations>>

\* Another process creates or removes zpix.ttf.
EnvFont ==
    /\ envBudget > 0
    /\ UNCHANGED notGen
    /\ pc \in {"gf_entry", "gf_run", "gf_exists", "gf_getsize"}
    /\ fontExists' = ~fontExists
    /\ envBudget' = envBudget - 1
    /\ UNCHANGED <<pc, outputs, probeResult, available, response, idx,
                   success_count, cur, results, invocations, message, summary>>

\* Another process removes the output file being generated.
EnvRemoveOutput ==
    /\ envBudget > 0
    /\ UNCHANGED notGen
    /\ pc \in {"gf_exists", "gf_getsize"}
    /\ outputs[idx] # Absent
    /\ outputs' = [outputs EXCEPT ![idx] = Absent]
    /\ envBudget' = envBudget - 1
    /\ UNCHANGED <<pc, fontExists, probeResult, available, response, idx,
                   success_count, cur, results, invocations, message, summary>>

(***************************************************************************)
(* test_zpix_font.py: the file system queries                              *)
(***************************************************************************)
font_files ==
    <<"src/fonts/lv_font_zpix_20.c",
      "src/fonts/lv_font_zpix_60.c",
      "src/fonts/lv_font_zpix.h">>

FileStates == {Absent, Denied} \cup Sizes

\* os.path.exists(path): False when the path is absent or stat() fails.
Exists(st) == st \notin {Absent, Denied}

\* os.path.getsize(path): the size, or OSError.
GetSize(st) ==
    IF st \in {Absent, Denied} THEN [ok |-> FALSE, size |-> 0]
    ELSE [ok |-> TRUE, size |-> st]

InsIdle ==
    /\ ipc = "idle"
    /\ ii = 0
    /\ report = <<>>

InsInit ==
    /\ ipc = "exists"
    /\ ii = 1
    /\ report = <<>>

\* After the body for font_files[ii]: the next path, or the end of the loop.
NextPath(i) == IF i = Len(font_files) THEN "done" ELSE "exists"

\* check_generated_files: "if os.path.exists(file)" for font_files[ii].
CG_Exists ==
    /\ ipc = "exists"
    /\ UNCHANGED <<notIns, files, envBudget>>
    /\ IF Exists(files[ii])
       THEN /\ ipc' = "getsize"
            /\ UNCHANGED <<ii, report>>
       ELSE /\ report' = Append(report, [path |-> font_files[ii],
                                         exists |-> FALSE, size |-> Unbound])
            /\ ii' = ii + 1
            /\ ipc' = NextPath(ii)

\* check_generated_files: size = os.path.getsize(file), not in a try.
CG_GetSize ==
    /\ ipc = "getsize"
    /\ UNCHANGED <<notIns, files, envBudget>>
    /\ LET g == GetSize(files[ii])
       IN  IF g.ok
           THEN /\ report' = Append(report, [path |-> font_files[ii],
                                             exists |-> TRUE, size |-> g.size])
                /\ ii' = ii + 1
                /\ ipc' = NextPath(ii)
           ELSE /\ ipc' = "raised"      \* OSError leaves the function
                /\ UNCHANGED <<ii, report>>

check_generated_files == CG_Exists \/ CG_GetSize

\* Another process creates, rewrites, removes or locks away one of the paths
\* while a scan is running.
EnvFile ==
    /\ envBudget > 0
    /\ ipc \in {"exists", "getsize"} \/ mpc \in {"exists20", "getsize20", "exists60", "getsize60"}
    /\ \E i \in 1..Len(font_files), st \in FileStates :
        /\ st # files[i]
        /\ files' = [files EXCEPT ![i] = st]
    /\ envBudget' = envBudget - 1
    /\ UNCHANGED <<genVars, decVars, insVars, memVars>>

(***************************************************************************)
(* test_zpix_font.py: check_memory_usage                                   *)
(***************************************************************************)
esp32_flash == 2 * 1024 * 1024
esp32_ram == 327680

\* n / d rounded to an integer, ties to even (what the .2f format does to a
\* value that is exactly representable).
RoundHalfEven(n, d) ==
    LET q == n \div d
        r == n % d
    IN  IF 2 * r < d THEN q
        ELSE IF 2 * r > d THEN q + 1
        ELSE IF q % 2 = 0 THEN q ELSE q + 1

\* total/esp32_flash*100 as printed with two decimals, in hundredths of a percent.
FlashPercent(t) == RoundHalfEven(t * 100 * 100, esp32_flash)

\* total = size_20 + size_60 if 'size_20' in locals() and 'size_60' in locals() else 0
Total(s20, s60) == IF s20 # Unbound /\ s60 # Unbound THEN s20 + s60 ELSE 0

MemIdle ==
    /\ mpc = "idle"
    /\ size_20 = Unbound
    /\ size_60 = Unbound
    /\ total = Unbound
    /\ flashPct = Unbound

MemInit ==
    /\ mpc = "exists20"
    /\ size_20 = Unbound
    /\ size_60 = Unbound
    /\ total = Unbound
    /\ flashPct = Unbound

\* if os.path.exists("src/fonts/lv_font_zpix_20.c")
CM_Exists20 ==
    /\ mpc = "exists20"
    /\ UNCHANGED <<notMem, files, envBudget>>
    /\ mpc' = IF Exists(files[1]) THEN "getsize20" ELSE "exists60"
    /\ UNCHANGED <<size_20, size_60, total, flashPct>>

\* size_20 = os.path.getsize(...)
CM_GetSize20 ==
    /\ mpc = "getsize20"
    /\ UNCHANGED <<notMem, files, envBudget>>
    /\ LET g == GetSize(files[1])
       IN  IF g.ok
           THEN /\ size_20' = g.size
                /\ mpc' = "exists60"
           ELSE /\ mpc' = "raised"
                /\ UNCHANGED size_20
    /\ UNCHANGED <<size_60, total, flashPct>>

\* if os.path.exists("src/fonts/lv_font_zpix_60.c")
CM_Exists60 ==
    /\ mpc = "exists60"
    /\ UNCHANGED <<notMem, files, envBudget>>
    /\ mpc' = IF Exists(files[2]) THEN "getsize60" ELSE "total"
    /\ UNCHANGED <<size_20, size_60, total, flashPct>>

\* size_60 = os.path.getsize(...)
CM_GetSize60 ==
    /\ mpc = "getsize60"
    /\ UNCHANGED <<notMem, files, envBudget>>
    /\ LET g == GetSize(files[2])
       IN  IF g.ok
           THEN /\ size_60' = g.size
                /\ mpc' = "total"
           ELSE /\ mpc' = "raised"
                /\ UNCHANGED size_60
    /\ UNCHANGED <<size_20, total, flashPct>>

\* total = ... and the flash line.
CM_Total ==
    /\ mpc = "total"
    /\ UNCHANGED <<notMem, files, envBudget>>
    /\ total' = Total(size_20, size_60)
    /\ flashPct' = FlashPercent(Total(size_20, size_60))
    /\ mpc' = "done"
    /\ UNCHANGED <<size_20, size_60>>

check_memory_usage ==
    CM_Exists20 \/ CM_GetSize20 \/ CM_Exists60 \/ CM_GetSize60 \/ CM_Total

(***************************************************************************)
(* Specifications                                                          *)
(***************************************************************************)
NoFiles == [i \in 1..Len(font_files) |-> Absent]

Init ==
    /\ GenInit
    /\ DecIdle
    /\ InsIdle
    /\ MemIdle
    /\ files = NoFiles
    /\ envBudget = MaxEnvChanges

Next ==
    \/ analyze_zpix_font
    \/ check_lv_font_conv
    \/ MainToolUnavailable
    \/ MainAsk
    \/ generate_font
    \/ GT_Summary
    \/ EnvFont
    \/ EnvRemoveOutput

Spec == Init /\ [][Next]_vars

InitDecode ==
    /\ DecInit
    /\ GenIdle
    /\ InsIdle
    /\ MemIdle
    /\ files = NoFiles
    /\ envBudget = 0

NextDecode == analyze_character_range

SpecDecode == InitDecode /\ [][NextDecode]_vars

InitInspect ==
    /\ InsInit
    /\ GenIdle
    /\ DecIdle
    /\ MemIdle
    /\ files \in [1..Len(font_files) -> FileStates]
    /\ envBudget = MaxEnvChanges

NextInspect == check_generated_files \/ EnvFile

SpecInspect == InitInspect /\ [][NextInspect]_vars

InitBudget ==
    /\ MemInit
    /\ GenIdle
    /\ DecIdle
    /\ InsIdle
    /\ files \in [1..Len(font_files) -> FileStates]
    /\ envBudget = MaxEnvChanges

NextBudget == check_memory_usage \/ EnvFile

SpecBudget == InitBudget /\ [][NextBudget]_vars

(***************************************************************************)
(* Properties of regenerate_zpix_fonts.py (checked under Spec)             *)
(***************************************************************************)
InBatch == pc \in {"gf_entry", "gf_run", "gf_exists", "gf_getsize"}
BatchFinished == pc = "gt_summary" \/ (pc = "done" /\ message = "summary")
Invoked(k) == IF results[k].ran = NotRun THEN 0 ELSE 1
SuccessesIn(rs) == Cardinality({k \in 1..Len(rs) : rs[k].kind = "Success"})

\* C4: generate_font reports Success only when the process exited with code 0
\* and the output file was there afterwards, and every Success carries the
\* file's byte size.
C4_SuccessNeedsOutput ==
    \A k \in 1..Len(results) :
        results[k].kind = "Success" =>
            /\ results[k].ran = Exited(0)
            /\ results[k].outSeen
            /\ results[k].reported \in Sizes

\* C5: the batch processes every size exactly once, in list order and one at
\* a time, whatever the earlier outcomes were; at most one process is started
\* per size and nothing stops the loop before the last size.
C5_EverySizeOnce ==
    /\ pc # "crashed"
    /\ Len(results) <= Len(test_sizes)
    /\ \A k \in 1..Len(results) :
        /\ results[k].size = test_sizes[k].size
        /\ invocations[k] = Invoked(k)
    /\ \A i \in 1..Len(test_sizes) : invocations[i] <= 1
    /\ InBatch =>
        /\ idx \in 1..Len(test_sizes)
        /\ Len(results) = idx - 1
        /\ \A i \in (idx + 1)..Len(test_sizes) : invocations[i] = 0
    /\ BatchFinished => Len(results) = Len(test_sizes)

C5_Witness ==
    /\ pc = "done"
    /\ Len(results) = Len(test_sizes)
    /\ results[1].kind = "MissingInput"
    /\ results[2].kind = "Timeout"
    /\ results[3].kind = "Success"

\* C6: no process is started for any size unless the probe ran before and
\* returned True; when it returned False the run ends with the install
\* message and no size is requested.
C6_ProbeGates ==
    /\ (InBatch \/ BatchFinished \/ results # <<>>
            \/ \E i \in 1..Len(test_sizes) : invocations[i] > 0)
        => (probeResult # NotRun /\ available)
    /\ (probeResult # NotRun /\ ~available) =>
        /\ pc \in {"probed", "done"}
        /\ results = <<>>
        /\ idx = 0
        /\ \A i \in 1..Len(test_sizes) : invocations[i] = 0
        /\ pc = "done" => message = "install"

C6_Witness ==
    /\ probeResult = Exited(0)
    /\ available
    /\ \E i \in 1..Len(test_sizes) : invocations[i] = 1

\* C7: a request made while zpix.ttf does not exist returns the failed
\* missing-input outcome without starting the process, and the other sizes of
\* the batch are still processed.
C7_MissingInput ==
    /\ \A k \in 1..Len(results) :
        ~results[k].fontSeen <=>
            (/\ results[k].kind = "MissingInput"
             /\ ~results[k].ret
             /\ results[k].ran = NotRun
             /\ invocations[k] = 0)
    /\ pc \in {"gf_run", "gf_exists", "gf_getsize"} => cur.fontSeen
    /\ (BatchFinished /\ \E k \in 1..Len(results) : results[k].kind = "MissingInput")
        => Len(results) = Len(test_sizes)

C7_Witness ==
    /\ Len(results) >= 2
    /\ results[1].kind = "MissingInput"
    /\ invocations[1] = 0
    /\ results[2].ran # NotRun

\* C8: check_lv_font_conv returns True only if the --help run exited with
\* code 0; for a nonzero exit code, a timeout, a process that could not be
\* started or any other exception it returns False, and main goes on.
C8_Probe ==
    /\ probeResult # NotRun => (available <=> probeResult = Exited(0))
    /\ probeResult = NotRun => (~available /\ pc \in {"analyze", "probe"})
    /\ pc # "crashed"

C8_Witness ==
    /\ probeResult = Raises("FileNotFoundError")
    /\ ~available
    /\ pc = "done"
    /\ message = "install"

\* C10: at every point of a batch success_count is the number of processed
\* sizes whose outcome was Success, with 0 <= success_count <= processed <= M;
\* it never decreases; the summary is <<N, M>> with N the number of Success
\* outcomes and M the number of requested sizes.
C10_CounterState ==
    /\ success_count = SuccessesIn(results)
    /\ 0 <= success_count
    /\ success_count <= Len(results)
    /\ Len(results) <= Len(test_sizes)
    /\ message = "summary" =>
        /\ Len(results) = Len(test_sizes)
        /\ summary = <<SuccessesIn(results), Len(test_sizes)>>

C10_Counter == []C10_CounterState /\ [][success_count' >= success_count]_vars

C10_Witness ==
    /\ message = "summary"
    /\ summary = <<2, Len(test_sizes)>>
    /\ results[2].kind = "ToolError"

(***************************************************************************)
(* Properties of analyze_character_range (checked under SpecDecode)        *)
(***************************************************************************)
\* A token of a well-formed expression: a single code point, or an interval
\* whose ends are in order.
WellFormedToken(t) ==
    \/ t.kind = "single"
    \/ t.kind = "interval" /\ t.lo <= t.hi

\* A well-formed expression has at least one token, all of them well formed.
WellFormed(toks) ==
    /\ Len(toks) >= 1
    /\ \A k \in 1..Len(toks) : WellFormedToken(toks[k])

\* lo, lo + 1, ..., hi : hi - lo + 1 values (a single token has lo = hi).
Expansion(t) == [k \in 1..(t.hi - t.lo + 1) |-> t.lo + k - 1]

RECURSIVE Expected(_)
\* The tokens' expansions, concatenated in token order.
Expected(toks) ==
    IF toks = <<>> THEN <<>>
    ELSE Expected(SubSeq(toks, 1, Len(toks) - 1)) \o Expansion(toks[Len(toks)])

\* C2: for a well-formed expression the decoded list is the concatenation, in
\* token order, of each token's expansion lo..hi (hi - lo + 1 ascending values,
\* one value for a single token), duplicates kept; the count printed is its
\* length and decoding does not fail.
C2_Decode ==
    WellFormed(tokens) =>
        /\ dpc # "raised"
        /\ dpc \in {"loop", "done"} =>
            /\ Len(ranges) = Len(tokens)
            /\ chars = Expected(SubSeq(tokens, 1, di - 1))
        /\ dpc = "done" =>
            /\ chars = Expected(tokens)
            /\ count = Len(chars)

\* decode("0x30-0x33,0x2B") is '0','1','2','3','+'.
C2_Witness ==
    /\ dpc = "done"
    /\ range_hex = <<"0", "x", "3", "0", "-", "0", "x", "3", "3", ",", "0", "x", "2", "B">>
    /\ chars = <<48, 49, 50, 51, 43>>
    /\ count = 5

\* C3: decoding fails, and yields no decoded list, whenever a token is an
\* interval with lo > hi or is no valid hex literal or interval.
C3_MalformedFails ==
    (\E k \in 1..Len(tokens) : ~WellFormedToken(tokens[k])) =>
        (dpc # "done" /\ count = -1)

(***************************************************************************)
(* Properties of check_generated_files (checked under SpecInspect)         *)
(***************************************************************************)
\* C9: whatever subset of the paths exists, and also when a path changes
\* between the existence test and the size read, the scan never raises and
\* reports every path in order: exists with a size >= 0, or not exists with
\* no size.
C9_InspectNeverRaises ==
    /\ ipc # "raised"
    /\ \A k \in 1..Len(report) :
        /\ report[k].path = font_files[k]
        /\ IF report[k].exists THEN report[k].size >= 0
           ELSE report[k].size = Unbound
    /\ ipc = "done" => Len(report) = Len(font_files)

(***************************************************************************)
(* Properties of check_memory_usage (checked under SpecBudget)             *)
(***************************************************************************)
\* The sum of the sizes that were read, a size never read counting zero.
TotalOfPresent(s20, s60) ==
    (IF s20 # Unbound THEN s20 ELSE 0) + (IF s60 # Unbound THEN s60 ELSE 0)

\* C1: the total is the sum of the sizes of the artifacts that are present,
\* a missing artifact counting zero, and the flash percentage is that total
\* over esp32_flash.
C1_TotalIsSumOfPresent ==
    mpc = "done" =>
        /\ total = TotalOfPresent(size_20, size_60)
        /\ flashPct = FlashPercent(TotalOfPresent(size_20, size_60))

====
